---- MODULE Spec2Model ----
(***************************************************************************)
(* A model of the MPC telemetry server of src/src/main.cpp: the websocket  *)
(* message handler (dispatch on the message text, waypoint transform,      *)
(* polynomial fit, latency projection, Solve, command construction, delay, *)
(* send) running on the single-threaded uWS event loop.                    *)
(*                                                                         *)
(* Numbers.  The program computes in IEEE doubles.  The model computes in  *)
(* fixed point: an integer n stands for the real n / Scale.  Products and  *)
(* quotients round to the nearest unit, as a floating-point operation      *)
(* rounds to the nearest double; sin, cos and atan of <math.h> are         *)
(* rational approximations accurate to a few units, exact at 0 and at the  *)
(* quarter turns.                                                          *)
(***************************************************************************)
EXTENDS Integers, Sequences, FiniteSets, TLC

VARIABLES alive, pc, cur, loc, mpc

vars == <<alive, pc, cur, loc, mpc>>

-----------------------------------------------------------------------------
(* Fixed-point arithmetic *)

Scale == 10 ^ 3

Abs(n) == IF n < 0 THEN -n ELSE n

Sgn(n) == IF n < 0 THEN -1 ELSE IF n > 0 THEN 1 ELSE 0

\* n / d rounded to the nearest integer, halves away from zero (d > 0)
Rnd(n, d) == Sgn(n) * ((Abs(n) \div d) + (IF 2 * (Abs(n) % d) >= d THEN 1 ELSE 0))

Mul(a, b) == Rnd(a * b, Scale)

Div(a, b) == Sgn(b) * Rnd(a * Scale, Abs(b))

\* M_PI, and M_PI / 2 rounded, in units of 1 / Scale
PI == 3142

HalfPI == (PI + 1) \div 2

\* sin on [0, pi]: Bhaskara's rational approximation
SinPos(x) == LET p == x * (PI - x)
             IN  Rnd(16 * p, Rnd(5 * PI * PI - 4 * p, Scale))

\* the angle reduced to (-pi, pi]
RECURSIVE Wrap(_)
Wrap(x) == IF x > PI THEN Wrap(x - 2 * PI)
           ELSE IF x <= -PI THEN Wrap(x + 2 * PI)
           ELSE x

Sin(x) == LET w == Wrap(x) IN IF w < 0 THEN -SinPos(-w) ELSE SinPos(w)

Cos(x) == Sin(x + HalfPI)

\* atan: z / (1 + 0.28 z^2) on [-1, 1], pi/2 - z / (z^2 + 0.28) outside
Atan(z) == LET z2 == Mul(z, z)
           IN  IF Abs(z) <= Scale THEN Div(z, Scale + Mul(280, z2))
               ELSE Sgn(z) * HalfPI - Div(z, z2 + 280)

\* pow(x, i) of <math.h> for a small non-negative integer exponent
RECURSIVE Pow(_, _)
Pow(x, i) == IF i = 0 THEN Scale ELSE Mul(Pow(x, i - 1), x)

-----------------------------------------------------------------------------
(* Strings: a std::string is the sequence of its characters; positions are *)
(* 0-based as in C++, and npos is string::npos.                            *)

npos == -1

\* whether sub occurs in s at 0-based position p
OccursAt(s, sub, p) == /\ p + Len(sub) <= Len(s)
                       /\ \A k \in 1..Len(sub) : s[p + k] = sub[k]

Occurrences(s, sub) == {p \in 0..Len(s) : OccursAt(s, sub, p)}

Min(S) == CHOOSE x \in S : \A y \in S : x <= y

Max(S) == CHOOSE x \in S : \A y \in S : x >= y

\* std::string::find / find_first_of (of a single character) / rfind
Find(s, sub) == IF Occurrences(s, sub) = {} THEN npos ELSE Min(Occurrences(s, sub))

RFind(s, sub) == IF Occurrences(s, sub) = {} THEN npos ELSE Max(Occurrences(s, sub))

\* std::string::substr(pos, count), pos <= size; count is a size_t, so a
\* negative count is a huge one and the rest of the string is taken
Substr(s, pos, count) ==
    LET n == IF count < 0 \/ pos + count > Len(s) THEN Len(s) - pos ELSE count
    IN  SubSeq(s, pos + 1, pos + n)

\* hasData without its test for "null"
hasDataIgnoringNull(s) ==
    LET b1 == Find(s, <<"[">>)
        b2 == RFind(s, <<"}", "]">>)
    IN  IF b1 # npos /\ b2 # npos THEN Substr(s, b1, b2 - b1 + 2)
        ELSE <<>>

hasData(s) ==
    LET found_null == Find(s, <<"n", "u", "l", "l">>)
        b1 == Find(s, <<"[">>)
        b2 == RFind(s, <<"}", "]">>)
    IN  IF found_null # npos THEN <<>>
        ELSE IF b1 # npos /\ b2 # npos THEN Substr(s, b1, b2 - b1 + 2)
        ELSE <<>>

\* json::parse(s) followed by j[0].get<string>(): the event name of a
\* SocketIO array ["name", ...], or "throws" (nlohmann::json raises a
\* parse_error or type_error) when s is not such an array
ParseEvent(s) ==
    LET quotes == {p \in 3..Len(s) : s[p] = "\""}
    IN  IF Len(s) >= 4 /\ s[1] = "[" /\ s[2] = "\"" /\ s[Len(s)] = "]" /\ quotes # {}
        THEN SubSeq(s, 3, Min(quotes) - 1)
        ELSE <<"throws">>

-----------------------------------------------------------------------------
(* polyeval and polyfit.  Eigen vectors are sequences (index i of the      *)
(* program is index i + 1 of the model).                                   *)

RECURSIVE polyevalFrom(_, _, _)
polyevalFrom(coeffs, x, i) ==
    IF i >= Len(coeffs) THEN 0
    ELSE Mul(coeffs[i + 1], Pow(x, i)) + polyevalFrom(coeffs, x, i + 1)

polyeval(coeffs, x) == polyevalFrom(coeffs, x, 0)

RECURSIVE Gcd(_, _)
Gcd(a, b) == IF b = 0 THEN Abs(a) ELSE Gcd(b, a % b)

RECURSIVE GcdAll(_, _)
GcdAll(v, g) == IF v = <<>> THEN g ELSE GcdAll(Tail(v), Gcd(Abs(Head(v)), g))

RECURSIVE IPow(_, _)
IPow(x, i) == IF i = 0 THEN 1 ELSE x * IPow(x, i - 1)

RECURSIVE SumSeq(_)
SumSeq(v) == IF v = <<>> THEN 0 ELSE Head(v) + SumSeq(Tail(v))

\* determinant of the n x n integer matrix m (Laplace expansion, first row)
RECURSIVE Det(_, _)
Det(m, n) ==
    IF n = 1 THEN m[1][1]
    ELSE LET minor(j) == [r \in 1..(n - 1) |->
                            [c \in 1..(n - 1) |-> m[r + 1][IF c < j THEN c ELSE c + 1]]]
             term(j) == (IF j % 2 = 1 THEN 1 ELSE -1) * m[1][j] * Det(minor(j), n - 1)
         IN  SumSeq([j \in 1..n |-> term(j)])

\* The least-squares solution of A c = yvals for the Vandermonde matrix
\* A(j, i) = xvals(j)^i, which is what A.householderQr().solve(yvals)
\* returns when A has full column rank: the solution of the normal
\* equations (A^T A) c = A^T yvals, by Cramer's rule.  The abscissae and
\* ordinates are first written as whole multiples of their common units ux
\* and uy, so that the determinants are computed exactly.
LeastSquares(xvals, yvals, order) ==
    LET n   == Len(xvals)
        ux  == GcdAll(xvals, Scale)
        uy  == GcdAll(yvals, Scale)
        xi  == [j \in 1..n |-> xvals[j] \div ux]
        yi  == [j \in 1..n |-> yvals[j] \div uy]
        A   == [j \in 1..n |-> [i \in 1..(order + 1) |-> IPow(xi[j], i - 1)]]
        AtA == [r \in 1..(order + 1) |-> [c \in 1..(order + 1) |->
                   SumSeq([j \in 1..n |-> A[j][r] * A[j][c]])]]
        Aty == [r \in 1..(order + 1) |-> SumSeq([j \in 1..n |-> A[j][r] * yi[j]])]
        d   == Det(AtA, order + 1)
        dk(k) == Det([r \in 1..(order + 1) |-> [c \in 1..(order + 1) |->
                        IF c = k THEN Aty[r] ELSE AtA[r][c]]], order + 1)
    IN  [k \in 1..(order + 1) |->
            Sgn(d) * Rnd(dk(k) * uy * IPow(Scale \div ux, k - 1), Abs(d))]

\* the two assertions of polyfit; the process aborts when one fails (the
\* source defines no NDEBUG, so the assertions are compiled in)
polyfitAsserts(xvals, yvals, order) ==
    /\ Len(xvals) = Len(yvals)
    /\ order >= 1 /\ order <= Len(xvals) - 1

\* polyfit with one column too few in A
polyfitShortOfOneColumn(xvals, yvals, order) == LeastSquares(xvals, yvals, order - 1)

\* polyfit past its assertions: the order + 1 coefficients, lowest first
polyfit(xvals, yvals, order) == LeastSquares(xvals, yvals, order)

-----------------------------------------------------------------------------
(* Program constants *)

Lf == 2670

latency == 100

PolyOrder == 3

MaxSteerDeg == 25

SleepMs == 100

deg2rad(x) == Div(Mul(x, PI), 180 * Scale)

-----------------------------------------------------------------------------
(* The messages the simulator may send.  A message is its text and, for a  *)
(* telemetry event, the values of the fields of its data object j[1].      *)

NConn == 2

Conns == 1..NConn

Chars42 == <<"4", "2">>

TelemetryName == <<"t", "e", "l", "e", "m", "e", "t", "r", "y">>

\* 42["<name>",<body>]
EventText(prefix, name, body) ==
    prefix \o <<"[", "\"">> \o name \o <<"\"", ",">> \o body \o <<"]">>

TelemetryText == EventText(Chars42, TelemetryName, <<"{", "}">>)

OtherTexts ==
    { EventText(Chars42, TelemetryName, <<"{", "n", "u", "l", "l", "}">>),
      EventText(Chars42, TelemetryName, <<"n", "u", "l", "l">>),
      EventText(Chars42, <<"o", "t", "h", "e", "r">>, <<"{", "}">>),
      EventText(<<"4", "1">>, TelemetryName, <<"{", "}">>),
      EventText(<<"4", "1">>, TelemetryName, <<"n", "u", "l", "l">>),
      <<"4", "2">>,
      <<"2">>,
      <<"4", "2", "x">>,
      <<"4", "2", "[", "}", "]">>,
      <<"4", "2", "}", "]", "[">> }

\* whole metres in units of 1 / Scale
Metres(v) == [i \in 1..Len(v) |-> v[i] * Scale]

Tele(ptsx, ptsy, x, y, psi, speed, steering_angle, throttle) ==
    [ptsx |-> Metres(ptsx), ptsy |-> Metres(ptsy), x |-> x * Scale, y |-> y * Scale,
     psi |-> psi, speed |-> speed * Scale, steering_angle |-> steering_angle,
     throttle |-> throttle]

\* Waypoints at whole metres and headings at quarter turns, so that the
\* vehicle-frame waypoints are whole metres too and the fit is exact.
Telemetry ==
    { Tele(<<-1, 0, 1, 2>>, <<0, 0, 0, 0>>, 0, 0, 0, 40, 0, 0),
      Tele(<<0, 1, 2, 3, 4>>, <<1, 2, 3, 4, 5>>, 1, 2, 0, 10, 100, 500),
      Tele(<<-2, -1, 0, 1, 2, 3>>, <<4, 1, 0, 1, 4, 9>>, 0, 1, 0, 20, -200, -1000),
      Tele(<<1, 0, 1, 2>>, <<-1, 0, 1, 2>>, 0, 0, HalfPI, 10, 436, 1000),
      Tele(<<-2, -1, 0, 1, 2>>, <<0, 1, 0, 1, 0>>, 0, 0, 0, 30, -50, 300),
      Tele(<<-1, 0, 1>>, <<0, 1, 0>>, 0, 0, 0, 10, 0, 0),
      Tele(<<-1, 0, 1, 2>>, <<0, 1, 0>>, 0, 0, 0, 10, 0, 0),
      Tele(<<-1, 0, 1>>, <<0, 1, 0, 2>>, 0, 0, 0, 10, 0, 0) }

NoData == Tele(<<>>, <<>>, 0, 0, 0, 0, 0, 0)

Messages == {[text |-> TelemetryText, data |-> d] : d \in Telemetry}
            \cup {[text |-> t, data |-> NoData] : t \in OtherTexts}

NoMessage == [text |-> <<>>, data |-> NoData]

-----------------------------------------------------------------------------
(* MPC::Solve.  The optimizer is not part of the handler's source; it is   *)
(* modelled from its contract: the solution is pinned to the initial       *)
(* state, follows the kinematic model, and a converged solution respects   *)
(* the actuator box, while a solve that did not converge carries its best  *)
(* known, possibly out-of-box, solution.                                   *)

HorizonN == 3

dt == 100

MaxSteer == deg2rad(MaxSteerDeg * Scale)

\* f'(x) for the cubic f of the coefficients
polyderiv(coeffs, x) ==
    coeffs[2] + Mul(2 * coeffs[3], x) + Mul(Mul(3 * coeffs[4], x), x)

\* one step of the kinematic model on <<x, y, psi, v, cte, epsi>>
KinematicModel(st, delta, a, coeffs, step) ==
    LET x == st[1]  y == st[2]  psi == st[3]  v == st[4]  epsi == st[6]
        turn == Mul(Mul(Div(v, Lf), delta), step)
    IN  << x + Mul(Mul(v, Cos(psi)), step),
           y + Mul(Mul(v, Sin(psi)), step),
           psi - turn,
           v + Mul(a, step),
           polyeval(coeffs, x) - y + Mul(Mul(v, Sin(epsi)), step),
           psi - Atan(polyderiv(coeffs, x)) - turn >>

\* the predicted states of steps 0..n-1 under a held actuation
RECURSIVE Rollout(_, _, _, _, _)
Rollout(st, delta, a, coeffs, n) ==
    IF n = 0 THEN <<>>
    ELSE <<st>> \o Rollout(KinematicModel(st, delta, a, coeffs, dt), delta, a, coeffs, n - 1)

ConvergedActuations == {<<d, a>> : d \in {-MaxSteer, 0, MaxSteer}, a \in {-Scale, Scale}}

UnconvergedActuations == {<<600, 300>>, <<0, 1500>>, <<-100, 500>>}

\* what one call of Solve may produce: the solution vector (the first
\* predicted state, then the first actuation pair: vars[6] and vars[7] of
\* the program are elements 7 and 8), the predicted path it leaves in the
\* MPC object (steps 1..N-1), and whether the solver converged
SolveOutcome(state, coeffs, act, converged) ==
    LET traj == Rollout(state, act[1], act[2], coeffs, HorizonN)
    IN  [vars |-> state \o <<act[1], act[2]>>,
         next_path_xs |-> [i \in 1..(HorizonN - 1) |-> traj[i + 1][1]],
         next_path_ys |-> [i \in 1..(HorizonN - 1) |-> traj[i + 1][2]],
         converged |-> converged]

SolveOutcomes(state, coeffs) ==
    {SolveOutcome(state, coeffs, act, TRUE) : act \in ConvergedActuations}
    \cup {SolveOutcome(state, coeffs, act, FALSE) : act \in UnconvergedActuations}

-----------------------------------------------------------------------------
(* The pure parts of the telemetry branch of onMessage *)

\* the waypoints in vehicle coordinates: the loop over i < ptsx.size()
TransformX(d) ==
    [i \in 1..Len(d.ptsx) |->
        Mul(d.ptsx[i] - d.x, Cos(d.psi)) + Mul(d.ptsy[i] - d.y, Sin(d.psi))]

TransformY(d) ==
    [i \in 1..Len(d.ptsx) |->
        Mul(d.ptsy[i] - d.y, Cos(d.psi)) - Mul(d.ptsx[i] - d.x, Sin(d.psi))]

\* the projection with the speed advanced by a whole second of throttle
ProjectStateSpeedUnscaled(v, delta, a, coeffs) ==
    LET turn == Mul(Mul(Div(v, Lf), delta), latency)
        late_x == Mul(Mul(v, Cos(0)), latency)
    IN  <<late_x, Mul(Mul(v, Sin(0)), latency), 0 - turn, v + a,
          polyeval(coeffs, 0) + Mul(Mul(v, Sin(0)), latency),
          0 - turn - Atan(coeffs[2] + Mul(2 * coeffs[3], late_x)
                          + Mul(Mul(3 * coeffs[4], late_x), late_x)) - turn>>

\* the state handed to Solve: the vehicle-frame state (x_v = y_v = psi_v = 0)
\* advanced by the latency
ProjectState(v, delta, a, coeffs) ==
    LET x_v == 0
        y_v == 0
        psi_v == 0
        cte == polyeval(coeffs, 0) - y_v
        epsi == psi_v - Atan(coeffs[2] + Mul(2 * coeffs[3], x_v)
                             + Mul(Mul(3 * coeffs[4], x_v), x_v))
        late_x == x_v + Mul(Mul(v, Cos(psi_v)), latency)
        late_y == y_v + Mul(Mul(v, Sin(psi_v)), latency)
        late_psi == psi_v - Mul(Mul(Div(v, Lf), delta), latency)
        late_v == v + Mul(a, latency)
        late_cte == cte + Mul(Mul(v, Sin(psi_v)), latency)
        late_epsi == late_psi
                     - Atan(coeffs[2] + Mul(2 * coeffs[3], late_x)
                            + Mul(Mul(3 * coeffs[4], late_x), late_x))
                     - Mul(Mul(Div(v, Lf), delta), latency)
    IN  <<late_x, late_y, late_psi, late_v, late_cte, late_epsi>>

\* the outgoing 42["steer",{...}] message
SteerMessage(solution, path_xs, path_ys, ptsx_v, ptsy_v) ==
    LET steer_value == solution[7]
        throttle_value == solution[8]
    IN  [event |-> "steer",
         steering_angle |-> Div(-steer_value, deg2rad(MaxSteerDeg * Scale)),
         throttle |-> throttle_value,
         mpc_x |-> path_xs,
         mpc_y |-> path_ys,
         next_x |-> ptsx_v,
         next_y |-> ptsy_v]

ManualMessage ==
    [event |-> "manual", steering_angle |-> 0, throttle |-> 0,
     mpc_x |-> <<>>, mpc_y |-> <<>>, next_x |-> <<>>, next_y |-> <<>>]

\* the telemetry branch with the send placed before the delay
StageAfterSendFirst(stage) ==
    CASE stage = "transform" -> "project"
      [] stage = "project"   -> "solve"
      [] stage = "solve"     -> "build"
      [] stage = "build"     -> "send"
      [] stage = "send"      -> "sleep"
      [] stage = "sleep"     -> "done"

\* the next position of the telemetry branch after each of its steps
StageAfter(stage) ==
    CASE stage = "transform" -> "project"
      [] stage = "project"   -> "solve"
      [] stage = "solve"     -> "build"
      [] stage = "build"     -> "sleep"
      [] stage = "sleep"     -> "send"
      [] stage = "send"      -> "done"

\* a handler per connection, each on a thread of its own
DispatchablePerConnection(c) == pc[c] = "idle"

\* The handlers run on the one thread of the hub's event loop, and a handler
\* returns before the loop reads the next message of any connection.
Dispatchable(c) == \A d \in Conns : pc[d] = "idle"

-----------------------------------------------------------------------------
(* State.                                                                  *)
(*   alive   the process has not aborted                                   *)
(*   pc[c]   the position of the handler serving connection c              *)
(*   cur[c]  the message that handler was called with                      *)
(*   loc[c]  that handler's locals, the messages it has sent on c (out),   *)
(*           and a record of its steps (steps, slept, oob_read)            *)
(*   mpc     the MPC object shared by every call of the handler            *)

NoLocals ==
    [ptsx_v |-> <<>>, ptsy_v |-> <<>>, coeffs |-> <<>>, state |-> <<>>,
     vars |-> <<>>, solved |-> <<>>, converged |-> TRUE, msg |-> ManualMessage,
     out |-> <<>>, steps |-> <<>>, slept |-> 0, oob_read |-> FALSE]

Is42(sdata) == Len(sdata) > 2 /\ sdata[1] = "4" /\ sdata[2] = "2"

\* lines 79-86 and 169-173: the dispatch on the text of the message (sdata
\* is the frame's length characters; the frames hold no NUL).  An exception
\* of the JSON library leaves the handler uncaught and ends the process.
OnMessage(c, m) ==
    /\ alive
    /\ Dispatchable(c)
    /\ pc[c] = "idle"
    /\ cur' = [cur EXCEPT ![c] = m]
    /\ LET sdata == m.text
           s == hasData(sdata)
           event == ParseEvent(s)
       IN  IF Is42(sdata)
           THEN IF s # <<>>
                THEN IF event = <<"throws">>
                     THEN /\ alive' = FALSE
                          /\ pc' = [pc EXCEPT ![c] = "aborted"]
                          /\ loc' = [loc EXCEPT ![c] = NoLocals]
                     ELSE /\ alive' = alive
                          /\ pc' = [pc EXCEPT ![c] =
                                      IF event = TelemetryName THEN "transform" ELSE "done"]
                          /\ loc' = [loc EXCEPT ![c] = NoLocals]
                ELSE /\ alive' = alive
                     /\ pc' = [pc EXCEPT ![c] = "done"]
                     /\ loc' = [loc EXCEPT ![c] = [NoLocals EXCEPT !.out = <<ManualMessage>>]]
           ELSE /\ alive' = alive
                /\ pc' = [pc EXCEPT ![c] = "done"]
                /\ loc' = [loc EXCEPT ![c] = NoLocals]
    /\ UNCHANGED mpc

\* lines 88-111: the waypoints in vehicle coordinates, and the fit.  With
\* ptsy shorter than ptsx the loop reads ptsy[i] past its end (whatever that
\* read yields, or if it faults, the process ends there or at the index
\* assertion of ptsy_v[i] in the same iteration); with ptsy longer the tail
\* of ptsy_v is never written and polyfit's size assertion fails.  A failed
\* assertion aborts the process.
Transform(c) ==
    /\ alive
    /\ pc[c] = "transform"
    /\ LET d == cur[c].data
           short == Len(d.ptsy) < Len(d.ptsx)
           ptsx_v == TransformX(d)
           ptsy_v == IF Len(d.ptsy) > Len(d.ptsx)
                     THEN TransformY(d) \o [i \in 1..(Len(d.ptsy) - Len(d.ptsx)) |-> 0]
                     ELSE TransformY(d)
       IN  IF short
           THEN /\ alive' = FALSE
                /\ pc' = [pc EXCEPT ![c] = "aborted"]
                /\ loc' = [loc EXCEPT ![c].oob_read = TRUE,
                                      ![c].steps = Append(@, "transform")]
           ELSE IF ~polyfitAsserts(ptsx_v, ptsy_v, PolyOrder)
           THEN /\ alive' = FALSE
                /\ pc' = [pc EXCEPT ![c] = "aborted"]
                /\ loc' = [loc EXCEPT ![c].ptsx_v = ptsx_v, ![c].ptsy_v = ptsy_v,
                                      ![c].steps = Append(@, "transform")]
           ELSE /\ alive' = alive
                /\ pc' = [pc EXCEPT ![c] = StageAfter("transform")]
                /\ loc' = [loc EXCEPT ![c].ptsx_v = ptsx_v, ![c].ptsy_v = ptsy_v,
                                      ![c].coeffs = polyfit(ptsx_v, ptsy_v, PolyOrder),
                                      ![c].steps = Append(@, "transform")]
    /\ UNCHANGED <<cur, mpc>>

\* lines 113-131: the state advanced by the latency
Project(c) ==
    /\ alive
    /\ pc[c] = "project"
    /\ LET d == cur[c].data
       IN  loc' = [loc EXCEPT ![c].state = ProjectState(d.speed, d.steering_angle,
                                                        d.throttle, loc[c].coeffs),
                              ![c].steps = Append(@, "project")]
    /\ pc' = [pc EXCEPT ![c] = StageAfter("project")]
    /\ UNCHANGED <<alive, cur, mpc>>

\* line 133: mpc.Solve(state, coeffs)
Solve(c) ==
    /\ alive
    /\ pc[c] = "solve"
    /\ \E o \in SolveOutcomes(loc[c].state, loc[c].coeffs) :
          /\ loc' = [loc EXCEPT ![c].vars = o.vars,
                                ![c].converged = o.converged,
                                ![c].solved = <<loc[c].state, loc[c].coeffs,
                                                o.next_path_xs, o.next_path_ys>>,
                                ![c].steps = Append(@, "solve")]
          /\ mpc' = [next_path_xs |-> o.next_path_xs, next_path_ys |-> o.next_path_ys]
    /\ pc' = [pc EXCEPT ![c] = StageAfter("solve")]
    /\ UNCHANGED <<alive, cur>>

\* lines 135-162: the command and the two displayed lines
Build(c) ==
    /\ alive
    /\ pc[c] = "build"
    /\ loc' = [loc EXCEPT ![c].msg = SteerMessage(loc[c].vars, mpc.next_path_xs,
                                                  mpc.next_path_ys, loc[c].ptsx_v,
                                                  loc[c].ptsy_v),
                          ![c].steps = Append(@, "build")]
    /\ pc' = [pc EXCEPT ![c] = StageAfter("build")]
    /\ UNCHANGED <<alive, cur, mpc>>

\* line 166: this_thread::sleep_for(100 ms)
Sleep(c) ==
    /\ alive
    /\ pc[c] = "sleep"
    /\ loc' = [loc EXCEPT ![c].slept = @ + SleepMs,
                          ![c].steps = Append(@, "sleep")]
    /\ pc' = [pc EXCEPT ![c] = StageAfter("sleep")]
    /\ UNCHANGED <<alive, cur, mpc>>

\* line 167: ws.send(msg)
Send(c) ==
    /\ alive
    /\ pc[c] = "send"
    /\ loc' = [loc EXCEPT ![c].out = Append(@, loc[c].msg),
                          ![c].steps = Append(@, "send")]
    /\ pc' = [pc EXCEPT ![c] = StageAfter("send")]
    /\ UNCHANGED <<alive, cur, mpc>>

\* line 175: the handler returns to the event loop; its locals are gone
Return(c) ==
    /\ alive
    /\ pc[c] = "done"
    /\ pc' = [pc EXCEPT ![c] = "idle"]
    /\ cur' = [cur EXCEPT ![c] = NoMessage]
    /\ loc' = [loc EXCEPT ![c] = NoLocals]
    /\ UNCHANGED <<alive, mpc>>

\* lines 68-72: the hub and the MPC object, before any message
Init == /\ alive = TRUE
        /\ pc = [c \in Conns |-> "idle"]
        /\ cur = [c \in Conns |-> NoMessage]
        /\ loc = [c \in Conns |-> NoLocals]
        /\ mpc = [next_path_xs |-> <<>>, next_path_ys |-> <<>>]

Next == \E c \in Conns :
          \/ \E m \in Messages : OnMessage(c, m)
          \/ Transform(c)
          \/ Project(c)
          \/ Solve(c)
          \/ Build(c)
          \/ Sleep(c)
          \/ Send(c)
          \/ Return(c)

Spec == Init /\ [][Next]_vars

-----------------------------------------------------------------------------
(* Properties *)

Stages == {"idle", "transform", "project", "solve", "build", "sleep", "send",
           "done", "aborted"}

TypeOK == /\ alive \in BOOLEAN
          /\ pc \in [Conns -> Stages]
          /\ \A c \in Conns : cur[c] \in Messages \cup {NoMessage}

\* the handler of c was called with a telemetry event
IsTelemetry(c) ==
    /\ Is42(cur[c].text)
    /\ hasData(cur[c].text) # <<>>
    /\ ParseEvent(hasData(cur[c].text)) = TelemetryName

\* the handler of c has called Solve in this tick
Solved(c) == loc[c].solved # <<>>

\* the handler of c has finished, or the process aborted inside it
TickOver(c) == pc[c] \in {"done", "aborted"}

SteerSent(c) == \E i \in 1..Len(loc[c].out) : loc[c].out[i].event = "steer"

InUnit(x) == -Scale <= x /\ x <= Scale

\* C1: every steer message sent carries a steering_angle and a throttle in
\* [-1, 1]; the steering_angle is the solver's first steering angle divided
\* by deg2rad(25) with its sign flipped, and the throttle is the solver's
\* first acceleration unchanged.
C1_CommandWithinUnitBox ==
    \A c \in Conns : \A i \in 1..Len(loc[c].out) :
        loc[c].out[i].event = "steer" =>
            /\ InUnit(loc[c].out[i].steering_angle)
            /\ InUnit(loc[c].out[i].throttle)
            /\ loc[c].out[i].steering_angle
                 = Div(-loc[c].vars[7], deg2rad(MaxSteerDeg * Scale))
            /\ loc[c].out[i].throttle = loc[c].vars[8]

\* C2: no steer message is sent with an actuation taken from a solve that
\* did not converge (the message carries no convergence status).
C2_NoSteerFromFailedSolve ==
    \A c \in Conns : SteerSent(c) => loc[c].converged

\* C3: the cte handed to Solve is f(x) - y + v * sin(epsi) * latency at the
\* pre-projection x = y = 0 and epsi = -atan(f'(0)).
C3_CteIsModelUpdate ==
    \A c \in Conns : Solved(c) =>
        LET d == cur[c].data
            coeffs == loc[c].solved[2]
            epsi == 0 - Atan(polyderiv(coeffs, 0))
        IN  loc[c].solved[1][5]
              = polyeval(coeffs, 0) - 0 + Mul(Mul(d.speed, Sin(epsi)), latency)

\* C4: the epsi handed to Solve is psi - atan(f'(x)) - (v / Lf) * delta *
\* latency at the pre-projection psi = x = 0.
C4_EpsiIsModelUpdate ==
    \A c \in Conns : Solved(c) =>
        LET d == cur[c].data
            coeffs == loc[c].solved[2]
        IN  loc[c].solved[1][6]
              = 0 - Atan(polyderiv(coeffs, 0))
                  - Mul(Mul(Div(d.speed, Lf), d.steering_angle), latency)

\* C5: the x, y, psi and v handed to Solve are the kinematic model's update
\* of x = y = psi = 0 over the latency, with the telemetry's speed,
\* steering angle and throttle.
C5_PoseIsModelUpdate ==
    \A c \in Conns : Solved(c) =>
        LET d == cur[c].data
            st == loc[c].solved[1]
        IN  /\ st[1] = 0 + Mul(Mul(d.speed, Cos(0)), latency)
            /\ st[2] = 0 + Mul(Mul(d.speed, Sin(0)), latency)
            /\ st[3] = 0 - Mul(Mul(Div(d.speed, Lf), d.steering_angle), latency)
            /\ st[4] = d.speed + Mul(d.throttle, latency)

C5_Witness ==
    \E c \in Conns :
        /\ Solved(c)
        /\ cur[c].data.speed # 0
        /\ cur[c].data.steering_angle # 0
        /\ cur[c].data.throttle # 0
        /\ loc[c].solved[1][3] # 0
        /\ loc[c].solved[1][4] # cur[c].data.speed

TickOrder == <<"transform", "project", "solve", "build", "sleep", "send">>

IsPrefix(s, t) == Len(s) <= Len(t) /\ s = SubSeq(t, 1, Len(s))

\* C6: in every telemetry tick the steps run in the order projection,
\* Solve (on the projected state), command construction, the 100 ms delay,
\* send, each at most once; a steer message is sent only after all of them.
C6_TickOrder ==
    \A c \in Conns :
        /\ IsPrefix(loc[c].steps, TickOrder)
        /\ Solved(c) => /\ loc[c].solved[1] = loc[c].state
                        /\ loc[c].state # <<>>
        /\ Len(loc[c].steps) >= 4 => /\ loc[c].msg.event = "steer"
                                     /\ loc[c].msg.throttle = loc[c].vars[8]
        /\ SteerSent(c) => /\ loc[c].steps = TickOrder
                           /\ loc[c].slept = SleepMs
                           /\ loc[c].out = <<loc[c].msg>>

C6_Witness ==
    \E c \in Conns :
        /\ pc[c] = "done"
        /\ loc[c].steps = TickOrder
        /\ loc[c].slept = SleepMs
        /\ SteerSent(c)

\* C7: at most one handler is between its call and its return at any time,
\* and the predicted path of a steer message is the path produced by the
\* Solve of the same tick.
C7_SolvesDoNotOverlap ==
    /\ Cardinality({c \in Conns : pc[c] \notin {"idle", "aborted"}}) <= 1
    /\ \A c \in Conns : Len(loc[c].steps) >= 4 =>
          /\ loc[c].msg.mpc_x = loc[c].solved[3]
          /\ loc[c].msg.mpc_y = loc[c].solved[4]

C7_Witness ==
    \E c \in Conns :
        /\ pc[c] = "done"
        /\ SteerSent(c)
        /\ loc[c].out[1].mpc_x = loc[c].solved[3]
        /\ Len(loc[c].out[1].mpc_x) = HorizonN - 1
        /\ mpc.next_path_xs = loc[c].solved[3]

\* C8: at every call of Solve the state has 6 components in the order x, y,
\* psi, v, cte, epsi and the coefficients are the 4 coefficients of the
\* cubic fitted to this tick's waypoints in this tick's vehicle frame.
C8_SolveArguments ==
    \A c \in Conns :
        /\ loc[c].coeffs # <<>> => Len(loc[c].coeffs) = PolyOrder + 1
        /\ Solved(c) => loc[c].solved[1] = loc[c].state /\ loc[c].solved[2] = loc[c].coeffs
        /\ loc[c].state # <<>> =>
             LET d == cur[c].data
                 st == loc[c].state
                 coeffs == loc[c].coeffs
             IN  /\ Len(st) = 6
                 /\ Len(coeffs) = 4
                 /\ coeffs = LeastSquares(TransformX(d), TransformY(d), 3)
                 /\ st[1] = Mul(d.speed, latency)
                 /\ st[2] = 0
                 /\ st[3] = 0 - Mul(Mul(Div(d.speed, Lf), d.steering_angle), latency)
                 /\ st[4] = d.speed + Mul(d.throttle, latency)
                 /\ st[5] = polyeval(coeffs, 0)

\* a tick about to call Solve after an earlier tick has solved
C8_Witness ==
    \E c \in Conns :
        /\ pc[c] = "solve"
        /\ mpc.next_path_xs # <<>>
        /\ Len(loc[c].state) = 6
        /\ Len(loc[c].coeffs) = 4
        /\ loc[c].coeffs[1] # 0
        /\ loc[c].coeffs[3] # 0

BadShape(d) == Len(d.ptsx) < 4 \/ Len(d.ptsx) # Len(d.ptsy)

\* C9: a telemetry tick with fewer than 4 waypoints, or with ptsx and ptsy
\* of different lengths, aborts before Solve, reads no element outside a
\* waypoint list, and sends nothing.
C9_BadShapeFailsFast ==
    \A c \in Conns : (IsTelemetry(c) /\ BadShape(cur[c].data)) =>
        /\ pc[c] \in {"transform", "aborted"}
        /\ ~Solved(c)
        /\ loc[c].out = <<>>
        /\ ~loc[c].oob_read

ContainsNull(s) == Occurrences(s, <<"n", "u", "l", "l">>) # {}

\* the replies the dispatch owes to a message that is not a telemetry event
OtherReplies(c) ==
    /\ Len(loc[c].out) <= 1
    /\ TickOver(c) =>
         /\ (Is42(cur[c].text) /\ hasData(cur[c].text) = <<>>) =>
               /\ loc[c].out = <<ManualMessage>>
               /\ ~Solved(c)
         /\ (Is42(cur[c].text) /\ ContainsNull(cur[c].text)) =>
               /\ loc[c].out = <<ManualMessage>>
               /\ ~Solved(c)
         /\ (Is42(cur[c].text) /\ hasData(cur[c].text) # <<>> /\ ~IsTelemetry(c)) =>
               loc[c].out = <<>>
         /\ ~Is42(cur[c].text) => loc[c].out = <<>>

====
